---- MODULE Spec2Model ----
(***************************************************************************)
(* Model of the resilient ingestion fetcher of chi-311-quality             *)
(* (src/src/fetch.py): schema probe, date-filter negotiation, the          *)
(* server-filtered pager and the fallback blind pager of fetch_api,        *)
(* together with the remote source it talks to; of main of fetch.py (one   *)
(* ingest run); and of the command-line programs peek.py, explore_311.py   *)
(* and checks.py (argument parsing, quality checks, exit status).          *)
(*                                                                         *)
(* Time is counted in ticks of 1/TicksPerSecond second since               *)
(* 2024-01-01T00:00:00Z.  A record is a function from field name to value; *)
(* a field the remote source leaves out of the JSON object (a null) is     *)
(* simply not in the record's domain.                                      *)
(***************************************************************************)
EXTENDS Integers, Sequences, FiniteSets, TLC

VARIABLES
    data,              \* remote: the stored rows, in storage order
    stable,            \* remote: TRUE while every page so far was served from the asked offset
    created_field,     \* input: explicit date-column override (None when absent)
    chunk,             \* input: page size
    max_pages,         \* input: fallback page cap
    days_back,         \* input: window length in days
    pc,                \* position inside fetch_api
    cols,              \* fetch.py:75
    date_cols_to_try,  \* fetch.py:81,83
    since_dt,          \* fetch.py:92 (ticks)
    since_str,         \* fetch.py:93 (whole seconds)
    dc_i,              \* index of `dc` in the negotiation loop, fetch.py:100
    attempt,           \* "raw" or "cast": which probe of candidate dc is next
    working_where,     \* fetch.py:96
    working_order,     \* fetch.py:97
    first_rows,        \* fetch.py:98
    frames,            \* fetch.py:122 (sequence of pages)
    offset,            \* fetch.py:131 / fetch.py:47
    rows,              \* fetch.py:136 / fetch.py:54,158: the page received last
    order_col,         \* fetch.py:149
    kept_frames,       \* fetch.py:155
    pages_scanned,     \* fetch.py:156
    any_newer,         \* fetch.py:163 (value after the last page processed)
    stop_reason,       \* why the fallback loop ended
    df,                \* the returned frame (sequence of rows)
    exc,               \* the exception that ended the call, if any
    log,               \* every request issued, with the response's status
    source,            \* fetch.py main: args.source
    csv_exists,        \* fetch.py main: args.path given and os.path.exists(args.path)
    written,           \* fetch.py main: what the run created on disk, in order
    run,               \* which invocation of fetch_api is running (1 or 2)
    prev,              \* what the first invocation returned and saw
    prog,              \* CLI: the module launched
    launch,            \* CLI: "module" (python -m src.X) or "script" (python src/X.py)
    argv,              \* CLI: the command line's options
    cli_pc,            \* CLI: position of the process
    effects,           \* CLI: data loads, network requests and file writes so far
    stdout,            \* CLI: the option names printed
    exit_code,         \* CLI: the process's exit status (NoExit while it runs)
    checks,            \* checks.py / explore_311.py: the statuses of the checks
    overall            \* checks.py / explore_311.py: the aggregated status

main_vars == << source, csv_exists, written >>
twice_vars == << run, prev >>
cli_vars == << prog, launch, argv, cli_pc, effects, stdout, exit_code, checks, overall >>

vars == << data, stable, created_field, chunk, max_pages, days_back, pc, cols,
           date_cols_to_try, since_dt, since_str, dc_i, attempt, working_where,
           working_order, first_rows, frames, offset, rows, order_col,
           kept_frames, pages_scanned, any_newer, stop_reason, df, exc, log,
           main_vars, twice_vars, cli_vars >>

inputs == << created_field, chunk, max_pages, days_back >>

-----------------------------------------------------------------------------
(* Bounds of the model *)

MaxRows == 3          \* rows stored by the remote source
MaxChunk == 2         \* largest page size explored below the one main passes
MaxPagesBound == 2    \* largest fallback page cap explored
TicksPerSecond == 2   \* sub-second resolution of the clock

(* Program constants *)

SecondsPerDay == 86400
DefaultDaysBack == 90
ProbeLimit == 5

None == ""
NaT == -1

DATE_FIELD_CANDIDATES ==
    << "requested_datetime", "last_modified_date", "closed_date", "created_date",
       "creation_date", "open_date", "sr_created_date", "date_created" >>

-----------------------------------------------------------------------------
(* Generic helpers *)

Min(a, b) == IF a <= b THEN a ELSE b

Range(s) == { s[i] : i \in 1..Len(s) }

RECURSIVE Concat(_)
Concat(ss) == IF ss = << >> THEN << >> ELSE Head(ss) \o Concat(Tail(ss))

SelectIn(s, S) ==
    LET F[i \in 0..Len(s)] ==
            IF i = 0 THEN << >>
            ELSE IF s[i] \in S THEN Append(F[i-1], s[i]) ELSE F[i-1]
    IN  F[Len(s)]

-----------------------------------------------------------------------------
(* Date values and their conversions *)

DayTicks(d) == d * SecondsPerDay * TicksPerSecond

\* The clock reads explored for datetime.now(timezone.utc): 2024-04-10T12:00:00Z on the
\* second, and the last tick before the next second.
ClockReads ==
    { DayTicks(100) + (SecondsPerDay \div 2) * TicksPerSecond + f : f \in { 0, TicksPerSecond - 1 } }

\* pd.to_datetime(value, errors="coerce", utc=True) on one value: a date string becomes its
\* instant, anything else becomes NaT.
ToDatetime(v) ==
    CASE v = "2024-03-01T00:00:00.000" -> DayTicks(60)
      [] v = "2024-01-05T00:00:00.000" -> DayTicks(4)
      [] v = "03/01/2024"              -> DayTicks(60)
      [] OTHER                         -> NaT

\* since_dt.strftime("%Y-%m-%dT%H:%M:%SZ"): the instant cut to whole seconds.
Strftime(t) == t \div TicksPerSecond

\* The instant a cutoff literal denotes, as the remote source reads it back.
ParseLiteral(lit) == lit * TicksPerSecond

-----------------------------------------------------------------------------
(* The remote source *)

\* The shapes a stored row can have (without its sr_number).
ShapeNew   == [requested_datetime |-> "2024-03-01T00:00:00.000", status |-> "Open"]
ShapeText  == [open_date |-> "pending", status |-> "Open"]
ShapeMixed == [requested_datetime |-> "2024-01-05T00:00:00.000", open_date |-> "03/01/2024"]
ShapePlain == [status |-> "Open"]

RowShapes == { ShapeNew, ShapeText, ShapeMixed, ShapePlain }

Stored(shapes) == [ i \in 1..Len(shapes) |-> ("sr_number" :> i) @@ shapes[i] ]

ShapeSeqs == UNION { [1..n -> RowShapes] : n \in 0..MaxRows }

Datasets == { Stored(ss) : ss \in ShapeSeqs }

\* The value the remote source compares and sorts by: the timestamp of the field, raw or
\* cast; a null or a text that is no date has none.
FieldTime(row, col) == IF col \in DOMAIN row THEN ToDatetime(row[col]) ELSE NaT

NoWhere == [col |-> None, cast |-> FALSE, lit |-> 0]
NoOrder == [col |-> None, cast |-> FALSE]

Matches(row, where) ==
    \/ where = NoWhere
    \/ /\ where # NoWhere
       /\ FieldTime(row, where.col) # NaT
       /\ FieldTime(row, where.col) >= ParseLiteral(where.lit)

\* r1 comes before r2 under $order: ascending by the field's timestamp, rows without
\* one last, ties in storage order (a stable total order).
Before(r1, r2, order) ==
    LET k1 == FieldTime(r1, order.col)
        k2 == FieldTime(r2, order.col)
    IN  IF order = NoOrder \/ k1 = k2 THEN r1["sr_number"] < r2["sr_number"]
        ELSE IF k1 = NaT THEN FALSE
        ELSE IF k2 = NaT THEN TRUE
        ELSE k1 < k2

\* The rows a query selects, in the order the remote source returns them.
View(where, order) ==
    LET S == { i \in 1..Len(data) : Matches(data[i], where) }
        Rank(i) == Cardinality({ j \in S : Before(data[j], data[i], order) })
    IN  [ k \in 1..Cardinality(S) |-> data[CHOOSE i \in S : Rank(i) = k - 1] ]

Slice(view, off, lim) ==
    IF off >= Len(view) \/ lim <= 0 THEN << >>
    ELSE SubSeq(view, off + 1, Min(off + lim, Len(view)))

\* A request: GET API_URL with these query parameters.
Request(kind, where, order, limit, off) ==
    [kind |-> kind, where |-> where, order |-> order, limit |-> limit, offset |-> off]

\* The bodies of the non-success responses explored.
ErrorBodies == { << "query.soql", "type-mismatch" >>, << "query.soql", "no-such-column" >> }

\* The page a frozen source with a stable ordering returns for a request.
AskedPage(req) == Slice(View(req.where, req.order), req.offset, req.limit)

\* The responses the remote source can give to a request: a page (the asked one, or the
\* first page again when the source ignores $offset), a non-success status with some
\* body, or no response before the timeout.
OkPages(req) ==
    { AskedPage(req), Slice(View(req.where, req.order), 0, req.limit) }

Responses(req) ==
    { [status |-> "ok", body |-> << >>, rows |-> p] : p \in OkPages(req) }
    \cup { [status |-> "http_error", body |-> b, rows |-> << >>] : b \in ErrorBodies }
    \cup { [status |-> "timeout", body |-> << >>, rows |-> << >>] }

\* What the log keeps of an exchange: the request, the status, the body of a non-success
\* response and the page's length.
Logged(req, resp) ==
    [req |-> req, status |-> resp.status, body |-> resp.body, n |-> Len(resp.rows)]

\* One request and its response: the request is logged, and the source stays stable
\* only if a page it returned is the asked one.
Exchange(req, resp) ==
    /\ log' = Append(log, Logged(req, resp))
    /\ stable' = (stable /\ (resp.status = "ok" => resp.rows = AskedPage(req)))

\* The unstable source is followed for this many requests.
MaxUnstable == MaxRows + 1

\* The most candidate columns a schema of the source can hold.
MaxCandidatesInSchema ==
    LET ns == { Cardinality(DOMAIN sh \cap Range(DATE_FIELD_CANDIDATES)) : sh \in RowShapes }
    IN  CHOOSE n \in ns : \A m \in ns : m <= n

\* More requests than one fetch issues against a stable source: the schema probe, two
\* probes per candidate of the schema, one page per stored row and a last empty page.
MaxStable == 1 + 2 * MaxCandidatesInSchema + MaxRows + 2

\* The number of requests of one fetch that are followed.
RequestBudget == IF stable THEN MaxStable ELSE MaxUnstable

-----------------------------------------------------------------------------
(* fetch_api: state after the call is entered *)

MainChunk == 50000

Overrides == { None, "open_date", "status" }
ChunkChoices == { 1, MaxChunk, MainChunk }
MaxPagesChoices == { 0, 1, MaxPagesBound }

NoExc == [type |-> "none", text |-> "", checked |-> << >>, columns |-> {}]

Raised(type, text, checked, columns) ==
    [type |-> type, text |-> text, checked |-> checked, columns |-> columns]

\* The exception a failed response raises where the code calls r.raise_for_status()
\* outside any try block, or where requests.get itself times out.
TransportExc(resp) ==
    IF resp.status = "timeout" THEN Raised("Timeout", "timed out", << >>, {})
    ELSE Raised("HTTPError", "status", << >>, {})

\* The locals of fetch_api when the call is entered.
EntryLocals ==
    /\ cols = {}
    /\ date_cols_to_try = << >>
    /\ since_dt = 0
    /\ since_str = 0
    /\ dc_i = 0
    /\ attempt = "raw"
    /\ working_where = NoWhere
    /\ working_order = NoOrder
    /\ first_rows = << >>
    /\ frames = << >>
    /\ offset = 0
    /\ rows = << >>
    /\ order_col = None
    /\ kept_frames = << >>
    /\ pages_scanned = 0
    /\ any_newer = FALSE
    /\ stop_reason = "none"
    /\ df = << >>
    /\ exc = NoExc
    /\ log = << >>

NoPrev == [df |-> << >>, since_dt |-> 0, log |-> << >>]
NoExit == -1

\* No second invocation has started.
FirstRun == run = 1 /\ prev = NoPrev

\* No command line is being processed.
NoCli ==
    /\ prog = None
    /\ launch = None
    /\ argv = [help |-> FALSE, source |-> None, out |-> None]
    /\ cli_pc = "none"
    /\ effects = << >>
    /\ stdout = {}
    /\ exit_code = NoExit
    /\ checks = << >>
    /\ overall = None

Init ==
    /\ data \in Datasets
    /\ stable = TRUE
    /\ created_field \in Overrides
    /\ chunk \in ChunkChoices
    /\ max_pages \in MaxPagesChoices
    /\ days_back = DefaultDaysBack
    /\ pc = "sample"
    /\ EntryLocals
    /\ source = "api" /\ csv_exists = FALSE /\ written = << >>
    /\ FirstRun
    /\ NoCli

\* An exception leaves fetch_api: nothing is returned.
Raise(e) ==
    /\ pc' = "raised"
    /\ exc' = e

-----------------------------------------------------------------------------
(* Schema Prober *)

\* _sample_columns: rows = r.json() or [{}]; set(rows[0].keys())
SampledColumns(page) == IF page = << >> THEN {} ELSE DOMAIN page[1]

SampleColumns ==
    /\ pc = "sample"
    /\ LET req == Request("schema", NoWhere, NoOrder, 1, 0)
       IN  \E resp \in Responses(req) :
             /\ Exchange(req, resp)
             /\ IF resp.status = "ok"
                THEN /\ cols' = SampledColumns(resp.rows)
                     /\ pc' = "choose"
                     /\ exc' = exc
                ELSE /\ Raise(TransportExc(resp))
                     /\ cols' = cols
    /\ UNCHANGED << data, inputs, date_cols_to_try, since_dt, since_str, dc_i, attempt,
                    working_where, working_order, first_rows, frames, offset, rows,
                    order_col, kept_frames, pages_scanned, any_newer, stop_reason, df >>
    /\ UNCHANGED << main_vars, twice_vars, cli_vars >>

-----------------------------------------------------------------------------
(* Choice of the candidate columns and of the cutoff *)

\* the candidate list is not intersected with the schema
CandidatesIn_All(columns) == DATE_FIELD_CANDIDATES

\* [c for c in DATE_FIELD_CANDIDATES if c in cols]
CandidatesIn(columns) == SelectIn(DATE_FIELD_CANDIDATES, columns)

\* the override is never checked against the schema
OverrideMissing_Skipped(columns) == FALSE

OverrideMissing(columns) == created_field # None /\ created_field \notin columns

\* the empty candidate list is never reported
NoCandidate_Skipped(columns) == FALSE

NoCandidate(columns) == created_field = None /\ CandidatesIn(columns) = << >>

DateColsToTry(columns) ==
    IF created_field # None THEN << created_field >> ELSE CandidatesIn(columns)

\* no order column is picked
PickOrderCol_None(try, columns) == None

\* order_col: the first of date_cols_to_try that is in cols, else None
PickOrderCol(try, columns) ==
    IF \E i \in 1..Len(try) : try[i] \in columns
    THEN try[CHOOSE i \in 1..Len(try) :
                 /\ try[i] \in columns
                 /\ \A j \in 1..(i - 1) : try[j] \notin columns]
    ELSE None

\* since_dt = datetime.now(timezone.utc) - timedelta(days=days_back)
Cutoff(now) == now - DayTicks(days_back)

\* What datetime.now can read in this invocation: a second invocation runs no earlier
\* than the first, possibly 60 days later.
ClockNow ==
    IF run = 1 THEN ClockReads
    ELSE { t \in ClockReads \cup { u + DayTicks(60) : u \in ClockReads } :
             Cutoff(t) >= prev.since_dt }

ChooseDateCols ==
    /\ pc = "choose"
    /\ IF OverrideMissing(cols)
       THEN /\ Raise(Raised("SystemExit", "--created-field not found in dataset columns",
                            << created_field >>, cols))
            /\ UNCHANGED << date_cols_to_try, since_dt, since_str, dc_i, attempt, order_col >>
       ELSE IF NoCandidate(cols)
       THEN /\ Raise(Raised("SystemExit", "No suitable date column found",
                            DATE_FIELD_CANDIDATES, cols))
            /\ UNCHANGED << date_cols_to_try, since_dt, since_str, dc_i, attempt, order_col >>
       ELSE /\ date_cols_to_try' = DateColsToTry(cols)
            /\ \E now \in ClockNow :
                 /\ since_dt' = Cutoff(now)
                 /\ since_str' = Strftime(Cutoff(now))
            /\ dc_i' = 1
            /\ attempt' = "raw"
            \* a `for` over an empty list falls through to the fallback branch
            /\ IF DateColsToTry(cols) # << >>
               THEN pc' = "negotiate" /\ order_col' = order_col
               ELSE pc' = "fallback" /\ order_col' = PickOrderCol(DateColsToTry(cols), cols)
            /\ exc' = exc
    /\ UNCHANGED << data, inputs, cols, working_where, working_order, first_rows, frames,
                    offset, rows, kept_frames, pages_scanned, any_newer, stop_reason,
                    df, log, stable >>
    /\ UNCHANGED << main_vars, twice_vars, cli_vars >>

-----------------------------------------------------------------------------
(* Date-Filter Negotiator *)

\* The text of the SystemExit _try_page raises on a non-success status: status code,
\* URL and the response body.
TryPageMessage(resp) == << "HTTP", "from Socrata.", "URL:", "Message:" >> \o resp.body

\* every failure of the raw probe is taken for a type mismatch
IsTypeMismatch_Always(msg) == TRUE

\* "type-mismatch" in msg or "Type mismatch" in msg or "op$>=" in msg
IsTypeMismatch(msg) ==
    \E i \in 1..Len(msg) : msg[i] \in { "type-mismatch", "Type mismatch", "op$>=" }

\* the literal is formatted from a clock read again, a second later
RawWhere_Reevaluated(dc) == [col |-> dc, cast |-> FALSE, lit |-> since_str + 1]

\* $where = f"{dc} >= '{since_str}'" and its cast form; $order likewise
RawWhere(dc)  == [col |-> dc, cast |-> FALSE, lit |-> since_str]
CastWhere(dc) == [col |-> dc, cast |-> TRUE, lit |-> since_str]
RawOrder(dc)  == [col |-> dc, cast |-> FALSE]
CastOrder(dc) == [col |-> dc, cast |-> TRUE]

\* chunk=min(5, chunk)
ProbeChunk == Min(ProbeLimit, chunk)

\* the pager restarts at offset 0 whatever the probe returned
StartOffset_Zero(page) == 0

\* start_offset = len(first_rows) if first_rows else 0
StartOffset(page) == IF page # << >> THEN Len(page) ELSE 0

\* the probe page is left out of the accumulation
FirstFrames_Dropped(page) == << >>

\* frames after `if first_rows: frames.append(pd.DataFrame(first_rows))`
FirstFrames(page) == IF page # << >> THEN << page >> ELSE << >>

\* the raw expressions are recorded whichever probe succeeded
ProbeSucceeded_RecordsRaw(where, order, page) ==
    /\ first_rows' = page
    /\ working_where' = [where EXCEPT !.cast = FALSE]
    /\ working_order' = [order EXCEPT !.cast = FALSE]
    /\ frames' = FirstFrames(page)
    /\ offset' = StartOffset(page)
    /\ pc' = "server"
    /\ UNCHANGED << dc_i, attempt, order_col, exc >>

\* A probe succeeded: break out of the loop and enter the server-filtered pager.
ProbeSucceeded(where, order, page) ==
    /\ first_rows' = page
    /\ working_where' = where
    /\ working_order' = order
    /\ frames' = FirstFrames(page)
    /\ offset' = StartOffset(page)
    /\ pc' = "server"
    /\ UNCHANGED << dc_i, attempt, order_col, exc >>

\* the loop retries the same candidate instead of moving on
NextCandidate_Retry ==
    /\ pc' = "negotiate"
    /\ attempt' = "raw"
    /\ UNCHANGED << dc_i, order_col, first_rows, working_where, working_order, frames,
                    offset, exc >>

\* the SystemExit of the failed probe leaves fetch_api
NextCandidate_Abort ==
    /\ Raise(Raised("SystemExit", "HTTP from Socrata.", << >>, {}))
    /\ UNCHANGED << dc_i, attempt, order_col, first_rows, working_where, working_order,
                    frames, offset >>

\* `continue`: the next candidate, or the fallback pager when the list is exhausted.
NextCandidate ==
    /\ dc_i' = dc_i + 1
    /\ attempt' = "raw"
    /\ IF dc_i + 1 <= Len(date_cols_to_try)
       THEN /\ pc' = "negotiate"
            /\ order_col' = order_col
       ELSE /\ pc' = "fallback"
            /\ order_col' = PickOrderCol(date_cols_to_try, cols)
    /\ UNCHANGED << first_rows, working_where, working_order, frames, offset, exc >>

ProbeRaw ==
    /\ pc = "negotiate"
    /\ attempt = "raw"
    /\ LET dc == date_cols_to_try[dc_i]
           req == Request("probe", RawWhere(dc), RawOrder(dc), ProbeChunk, 0)
       IN  \E resp \in Responses(req) :
             /\ Exchange(req, resp)
             /\ CASE resp.status = "ok" ->
                       ProbeSucceeded(RawWhere(dc), RawOrder(dc), resp.rows)
                  [] resp.status = "http_error" ->
                       IF IsTypeMismatch(TryPageMessage(resp))
                       THEN /\ attempt' = "cast"
                            /\ UNCHANGED << pc, dc_i, first_rows, working_where,
                                            working_order, frames, offset, order_col, exc >>
                       ELSE NextCandidate
                  [] OTHER ->
                       /\ Raise(TransportExc(resp))
                       /\ UNCHANGED << dc_i, attempt, first_rows, working_where,
                                       working_order, frames, offset, order_col >>
    /\ UNCHANGED << data, inputs, cols, date_cols_to_try, since_dt, since_str, rows,
                    kept_frames, pages_scanned, any_newer, stop_reason, df >>
    /\ UNCHANGED << main_vars, twice_vars, cli_vars >>

ProbeCast ==
    /\ pc = "negotiate"
    /\ attempt = "cast"
    /\ LET dc == date_cols_to_try[dc_i]
           req == Request("probe", CastWhere(dc), CastOrder(dc), ProbeChunk, 0)
       IN  \E resp \in Responses(req) :
             /\ Exchange(req, resp)
             /\ CASE resp.status = "ok" ->
                       ProbeSucceeded(CastWhere(dc), CastOrder(dc), resp.rows)
                  [] resp.status = "http_error" ->
                       NextCandidate
                  [] OTHER ->
                       /\ Raise(TransportExc(resp))
                       /\ UNCHANGED << dc_i, attempt, first_rows, working_where,
                                       working_order, frames, offset, order_col >>
    /\ UNCHANGED << data, inputs, cols, date_cols_to_try, since_dt, since_str, rows,
                    kept_frames, pages_scanned, any_newer, stop_reason, df >>
    /\ UNCHANGED << main_vars, twice_vars, cli_vars >>

-----------------------------------------------------------------------------
(* Server-Filtered Pager *)

\* the offset is left where it was
NextOffset_Stuck(off, page) == off

\* offset += len(rows)
NextOffset(off, page) == off + Len(page)

\* One turn of the `while True` loop of the server-filtered branch.
ServerPage ==
    /\ pc = "server"
    /\ Len(log) < RequestBudget
    /\ LET req == Request("page", working_where, working_order, chunk, offset)
       IN  \E resp \in Responses(req) :
             /\ Exchange(req, resp)
             /\ IF resp.status = "ok"
                THEN LET page == resp.rows
                         frames2 == IF page = << >> THEN frames ELSE Append(frames, page)
                     IN  /\ rows' = page
                         /\ frames' = frames2
                         /\ offset' = NextOffset(offset, page)
                         /\ IF page = << >> \/ Len(page) < chunk
                            THEN /\ pc' = "returned"
                                 /\ df' = Concat(frames2)
                            ELSE /\ pc' = "server"
                                 /\ df' = df
                         /\ exc' = exc
                ELSE /\ Raise(TransportExc(resp))
                     /\ UNCHANGED << frames, offset, rows, df >>
    /\ UNCHANGED << data, inputs, cols, date_cols_to_try, since_dt, since_str, dc_i,
                    attempt, working_where, working_order, first_rows, order_col,
                    kept_frames, pages_scanned, any_newer, stop_reason >>
    /\ UNCHANGED << main_vars, twice_vars, cli_vars >>

-----------------------------------------------------------------------------
(* Fallback Blind Pager *)

PageColumns(page) == UNION { DOMAIN page[i] : i \in 1..Len(page) }

\* The candidate columns the page frame has: `c in page_df.columns` for c in date_cols_to_try
PresentCols(page) == { c \in Range(date_cols_to_try) : c \in PageColumns(page) }

\* page_df after the first loop: every present candidate column replaced by its parse.
PageDf(page) ==
    [ i \in 1..Len(page) |->
        [ c \in DOMAIN page[i] |->
            IF c \in PresentCols(page) THEN ToDatetime(page[i][c]) ELSE page[i][c] ] ]

\* A cell of a parsed column; a row without the field holds NaT there.
CellTime(r, c) == IF c \in DOMAIN r THEN r[c] ELSE NaT

\* any parsed date counts as newer
IsNewer_AnyParsed(r, c) == CellTime(r, c) # NaT

\* page_df[c] >= since_dt, on one row (a comparison with NaT is False)
IsNewer(r, c) == CellTime(r, c) # NaT /\ CellTime(r, c) >= since_dt

\* page_df[c].notna().any() and (page_df[c] >= since_dt).any(), for some candidate column
AnyNewer(page) ==
    \E c \in PresentCols(page) :
        /\ \E i \in 1..Len(page) : CellTime(PageDf(page)[i], c) # NaT
        /\ \E i \in 1..Len(page) : IsNewer(PageDf(page)[i], c)

\* page_df[c].dtype.kind once the column went through pd.to_datetime(errors="coerce",
\* utc=True): datetime64[ns, UTC], whether or not any value parsed.
DtypeKind(page, c) == "M"

\* The columns that contribute a condition to mask_newer.
MaskCols(page) == { c \in PresentCols(page) : DtypeKind(page, c) = "M" }

\* the kept rows come out newest first
Kept_NewestFirst(page) ==
    LET frame == PageDf(page)
        newer(r) == \E c \in MaskCols(page) : IsNewer(r, c)
        k == IF MaskCols(page) # {} THEN SelectSeq(frame, newer) ELSE frame
    IN  [ i \in 1..Len(k) |-> k[Len(k) + 1 - i] ]

\* kept: page_df[mask_newer], or the whole page when mask_newer is None
Kept(page) ==
    LET frame == PageDf(page)
        newer(r) == \E c \in MaskCols(page) : IsNewer(r, c)
    IN  IF MaskCols(page) # {} THEN SelectSeq(frame, newer) ELSE frame

BlindOrder == IF order_col # None THEN RawOrder(order_col) ELSE NoOrder

\* Which of the loop's exits is taken after a page was processed ("none": go on).
StopAfter(page, newer, kept2, scanned) ==
    IF ~newer /\ kept2 # << >> THEN "heuristic"
    ELSE IF scanned >= max_pages THEN "cap"
    ELSE IF Len(page) < chunk THEN "short"
    ELSE "none"

\* One request of _page_iter_no_where and, when it yields, one turn of the for loop.
FallbackPage ==
    /\ pc = "fallback"
    /\ LET req == Request("blind", NoWhere, BlindOrder, chunk, offset)
       IN  \E resp \in Responses(req) :
             /\ Exchange(req, resp)
             /\ IF resp.status # "ok"
                THEN /\ Raise(TransportExc(resp))
                     /\ UNCHANGED << offset, rows, kept_frames, pages_scanned, any_newer,
                                     stop_reason, df >>
                ELSE IF resp.rows = << >>
                THEN /\ pc' = "returned"
                     /\ stop_reason' = "empty"
                     /\ df' = Concat(kept_frames)
                     /\ rows' = resp.rows
                     /\ UNCHANGED << offset, kept_frames, pages_scanned, any_newer, exc >>
                ELSE LET page == resp.rows
                         kept == Kept(page)
                         kept2 == IF kept # << >> THEN Append(kept_frames, kept)
                                  ELSE kept_frames
                         stop == StopAfter(page, AnyNewer(page), kept2, pages_scanned + 1)
                     IN  /\ rows' = page
                         /\ pages_scanned' = pages_scanned + 1
                         /\ any_newer' = AnyNewer(page)
                         /\ kept_frames' = kept2
                         /\ stop_reason' = stop
                         /\ offset' = IF stop \in { "heuristic", "cap" } THEN offset
                                      ELSE offset + Len(page)
                         /\ IF stop = "none"
                            THEN pc' = "fallback" /\ df' = df
                            ELSE pc' = "returned" /\ df' = Concat(kept2)
                         /\ exc' = exc
    /\ UNCHANGED << data, inputs, cols, date_cols_to_try, since_dt, since_str, dc_i,
                    attempt, working_where, working_order, first_rows, frames, order_col >>
    /\ UNCHANGED << main_vars, twice_vars, cli_vars >>

-----------------------------------------------------------------------------
(* The specification *)

Next ==
    \/ SampleColumns
    \/ ChooseDateCols
    \/ ProbeRaw
    \/ ProbeCast
    \/ ServerPage
    \/ FallbackPage

Spec == Init /\ [][Next]_vars

\* The same program against a source that serves every page from the asked offset (a
\* frozen dataset under a stable ordering). The interpreter keeps executing the call and
\* every request ends (timeout=120), so a step that can be taken is taken.
NextFrozen ==
    \/ SampleColumns /\ stable'
    \/ ChooseDateCols /\ stable'
    \/ ProbeRaw /\ stable'
    \/ ProbeCast /\ stable'
    \/ ServerPage /\ stable'
    \/ FallbackPage /\ stable'

\* The fallback page cap plays no part in the server-filtered pager, and every working
\* filter an override leads to is also reached without one: one value of each is kept.
InitFrozen == Init /\ created_field = None /\ max_pages = MaxPagesBound

SpecFrozenFair == InitFrozen /\ [][NextFrozen]_vars /\ WF_vars(NextFrozen)

-----------------------------------------------------------------------------
(* fetch.py main: one ingest run *)

remote == << data, stable >>

\* The locals of fetch_api other than its result and its exception.
fetch_locals ==
    << cols, date_cols_to_try, since_dt, since_str, dc_i, attempt, working_where,
       working_order, first_rows, frames, offset, rows, order_col, kept_frames,
       pages_scanned, any_newer, stop_reason, log >>

Sources == { "api", "csv" }

DataDir == "data/"
NotesDir == "notes/"
OutFile == "data/raw_311.parquet"
SummaryFile == "notes/data_ingest_summary.md"
MarkerFile == "notes/.INGEST_DONE"

\* main is entered with the parsed arguments; it always passes chunk=50000.
InitMain ==
    /\ data \in Datasets
    /\ stable = TRUE
    /\ created_field \in Overrides
    /\ chunk = MainChunk
    /\ max_pages \in MaxPagesChoices
    /\ days_back = DefaultDaysBack
    /\ pc = "main"
    /\ EntryLocals
    /\ \/ source = "api" /\ csv_exists = FALSE
       \/ source = "csv" /\ csv_exists \in BOOLEAN
    /\ written = << >>
    /\ FirstRun
    /\ NoCli

\* os.makedirs("data"), os.makedirs("notes"), then the branch on args.source
MainStart ==
    /\ pc = "main"
    /\ written' = << DataDir, NotesDir >>
    /\ pc' = IF source = "api" THEN "sample" ELSE "csv"
    /\ UNCHANGED << remote, inputs, fetch_locals, df, exc, source, csv_exists,
                    twice_vars, cli_vars >>

\* the csv branch: sys.exit when the path is missing, else pd.read_csv
ReadCsv ==
    /\ pc = "csv"
    /\ IF ~csv_exists
       THEN /\ Raise(Raised("SystemExit", "CSV path missing", << >>, {}))
            /\ df' = df
       ELSE /\ df' = data
            /\ pc' = "loaded"
            /\ exc' = exc
    /\ UNCHANGED << remote, inputs, fetch_locals, main_vars, twice_vars, cli_vars >>

\* The columns of df that fetch_api already parsed (fallback mode).
AlreadyParsed(c) == source = "api" /\ working_where = NoWhere /\ c \in Range(date_cols_to_try)

\* df[c] = pd.to_datetime(df[c], errors="coerce", utc=True) for every candidate column
Normalized(frame) ==
    [ i \in 1..Len(frame) |->
        [ c \in DOMAIN frame[i] |->
            IF c \in Range(DATE_FIELD_CANDIDATES) /\ ~AlreadyParsed(c)
            THEN ToDatetime(frame[i][c]) ELSE frame[i][c] ] ]

\* A write failed: the OSError leaves main.
WriteFailed == Raise(Raised("OSError", "write failed", << >>, {}))

\* normalisation of the date columns, then df.to_parquet(args.out)
WriteParquet ==
    /\ pc \in { "returned", "loaded" }
    /\ df' = Normalized(df)
    /\ \E ok \in BOOLEAN :
          IF ok THEN /\ written' = Append(written, OutFile)
                     /\ pc' = "parquet"
                     /\ exc' = exc
          ELSE /\ WriteFailed
               /\ written' = written
    /\ UNCHANGED << remote, inputs, fetch_locals, source, csv_exists, twice_vars, cli_vars >>

\* with open(args.summary, "w") ... the summary lines
WriteSummary ==
    /\ pc = "parquet"
    /\ \E ok \in BOOLEAN :
          IF ok THEN /\ written' = Append(written, SummaryFile)
                     /\ pc' = "summary"
                     /\ exc' = exc
          ELSE /\ WriteFailed
               /\ written' = written
    /\ UNCHANGED << remote, inputs, fetch_locals, df, source, csv_exists, twice_vars,
                    cli_vars >>

\* the marker is written as soon as fetch_api or read_csv has returned
MarkerDue_AtOnce == pc \in { "returned", "loaded", "summary" }

\* main has reached the block that writes notes/.INGEST_DONE
MarkerDue == pc = "summary"

\* with open("notes/.INGEST_DONE", "w") ... and the two prints
WriteMarker ==
    /\ MarkerDue
    /\ \E ok \in BOOLEAN :
          IF ok THEN /\ written' = Append(written, MarkerFile)
                     /\ pc' = "done"
                     /\ exc' = exc
          ELSE /\ WriteFailed
               /\ written' = written
    /\ UNCHANGED << remote, inputs, fetch_locals, df, source, csv_exists, twice_vars,
                    cli_vars >>

NextMain ==
    \/ MainStart
    \/ ReadCsv
    \/ SampleColumns
    \/ ChooseDateCols
    \/ ProbeRaw
    \/ ProbeCast
    \/ ServerPage
    \/ FallbackPage
    \/ WriteParquet
    \/ WriteSummary
    \/ WriteMarker

SpecMain == InitMain /\ [][NextMain]_vars

-----------------------------------------------------------------------------
(* Two invocations of fetch_api, one after the other *)

\* kept_frames survives from one call to the next
NewKeptFrames_Leaked == kept_frames

\* kept_frames = []
NewKeptFrames == << >>

\* The first call has returned; fetch_api is called again with the same arguments, with
\* fresh locals, against the same remote data.
Reinvoke ==
    /\ run = 1
    /\ pc = "returned"
    /\ run' = 2
    /\ prev' = [df |-> df, since_dt |-> since_dt, log |-> log]
    /\ pc' = "sample"
    /\ cols' = {}
    /\ date_cols_to_try' = << >>
    /\ since_dt' = 0
    /\ since_str' = 0
    /\ dc_i' = 0
    /\ attempt' = "raw"
    /\ working_where' = NoWhere
    /\ working_order' = NoOrder
    /\ first_rows' = << >>
    /\ frames' = << >>
    /\ offset' = 0
    /\ rows' = << >>
    /\ order_col' = None
    /\ kept_frames' = NewKeptFrames
    /\ pages_scanned' = 0
    /\ any_newer' = FALSE
    /\ stop_reason' = "none"
    /\ df' = << >>
    /\ exc' = NoExc
    /\ log' = << >>
    /\ UNCHANGED << remote, inputs, main_vars, cli_vars >>

\* Both calls run against a source that serves every page from the asked offset.
NextTwice ==
    \/ SampleColumns /\ stable'
    \/ ChooseDateCols /\ stable'
    \/ ProbeRaw /\ stable'
    \/ ProbeCast /\ stable'
    \/ ServerPage /\ stable'
    \/ FallbackPage /\ stable'
    \/ Reinvoke

\* Identical parameters in both calls; one choice of them is followed.
InitTwice == Init /\ created_field = None /\ chunk = MaxChunk /\ max_pages = MaxPagesBound

SpecTwice == InitTwice /\ [][NextTwice]_vars

-----------------------------------------------------------------------------
(* The command-line programs: peek.py, explore_311.py, checks.py, fetch.py *)

Progs == { "peek", "explore_311", "checks", "fetch" }

\* "module": python -m src.<prog> from the repository root (sys.path[0] is the root);
\* "script": python src/<prog>.py (sys.path[0] is src/).
Launches == { "module", "script" }

\* --out: the default below notes/, or a bare file name
OutPaths == { "notes/data_quality_checks.md", "report.md" }

\* os.path.dirname(path)
Dirname(path) == IF path = "report.md" THEN "" ELSE "notes"

\* The modules of the repository a program imports by a top-level absolute name.
LocalImports(p) == IF p = "explore_311" THEN { "common" } ELSE {}

\* The repository's modules importable by a bare name: those of src/ when src/ is
\* sys.path[0], none when the repository root is.
Importable(l) == IF l = "script" THEN { "common", "fetch", "peek", "checks" } ELSE {}

\* The options each parser declares (add_argument).
Options(p) ==
    CASE p = "peek" -> { "--source", "--limit", "--path" }
      [] p = "fetch" -> { "--days", "--out", "--summary", "--source", "--path",
                          "--created-field", "--max-pages" }
      [] OTHER -> { "--source", "--limit", "--path", "--out", "--mark-done" }

\* required=True on --source
SourceRequired(p) == p # "fetch"

ChecksProgs == { "checks", "explore_311" }

REQUIRED_FIELDS == << "sr_number", "type", "status", "created_date" >>

\* What the checks look at in the loaded frame: for a required field whether its column
\* is missing, sparse (above the null threshold) or complete, and the findings of the
\* other checks, each possible only when the columns it reads exist.
Findings ==
    { f \in [ req : [ Range(REQUIRED_FIELDS) -> { "missing", "sparse", "complete" } ],
              dups : BOOLEAN, fut_created : BOOLEAN, closed : BOOLEAN,
              fut_closed : BOOLEAN, neg_duration : BOOLEAN,
              coord : { "missing", "sparse", "complete" },
              legacy : { "missing", "some", "none" },
              info_dominant : BOOLEAN ] :
        /\ f.dups => f.req["sr_number"] # "missing"
        /\ f.fut_created => f.req["created_date"] # "missing"
        /\ f.fut_closed => f.closed
        /\ f.neg_duration => (f.closed /\ f.req["created_date"] # "missing")
        /\ f.info_dominant => f.req["type"] # "missing" }

RequiredStatus(v) ==
    CASE v = "missing" -> "FAIL" [] v = "sparse" -> "WARN" [] OTHER -> "PASS"

\* The list `checks` main builds, in order.
ChecksOf(f) ==
    [ i \in 1..Len(REQUIRED_FIELDS) |-> RequiredStatus(f.req[REQUIRED_FIELDS[i]]) ]
    \o << IF f.req["sr_number"] = "missing" \/ f.dups THEN "FAIL" ELSE "PASS",
          IF f.fut_created THEN "FAIL" ELSE "PASS",
          IF f.fut_closed THEN "FAIL" ELSE "PASS",
          IF f.neg_duration THEN "FAIL" ELSE "PASS",
          IF f.coord = "complete" THEN "PASS" ELSE "WARN",
          IF f.legacy = "none" THEN "PASS" ELSE "WARN",
          IF f.info_dominant THEN "INFO" ELSE "PASS" >>

\* overall = "PASS"; FAIL if any FAIL; elif any WARN: WARN
Overall(cs) ==
    IF \E i \in 1..Len(cs) : cs[i] = "FAIL" THEN "FAIL"
    ELSE IF \E i \in 1..Len(cs) : cs[i] = "WARN" THEN "WARN"
    ELSE "PASS"

\* sys.exit(0 if overall=="PASS" else 1)
ExitCode(o) == IF o = "PASS" THEN 0 ELSE 1

\* The interpreter ends the process on an uncaught exception, or on sys.exit(<str>).
ExitOnError == 1
\* argparse ends the process on a usage error.
ExitOnUsage == 2

\* The fetcher's variables, unused by the other programs.
FetchIdle ==
    /\ data = << >>
    /\ stable = TRUE
    /\ created_field = None
    /\ chunk = MainChunk
    /\ max_pages = MaxPagesBound
    /\ days_back = DefaultDaysBack
    /\ pc = "idle"
    /\ EntryLocals
    /\ source = "api" /\ csv_exists = FALSE /\ written = << >>
    /\ FirstRun

InitCli ==
    /\ FetchIdle
    /\ prog \in Progs
    /\ launch \in Launches
    /\ argv \in [ help : BOOLEAN, source : { None, "api", "csv" }, out : OutPaths ]
    /\ cli_pc = "start"
    /\ effects = << >>
    /\ stdout = {}
    /\ exit_code = NoExit
    /\ checks = << >>
    /\ overall = None

fetch_vars ==
    << remote, inputs, pc, fetch_locals, df, exc, main_vars, twice_vars >>

\* The process ends with this status after printing these words.
Exit(code, words) ==
    /\ cli_pc' = "exited"
    /\ exit_code' = code
    /\ stdout' = stdout \cup words

\* The module's top level: its imports (and load_dotenv, which reads .env only).
ImportModule ==
    /\ cli_pc = "start"
    /\ IF LocalImports(prog) \subseteq Importable(launch)
       THEN /\ cli_pc' = "imported"
            /\ UNCHANGED << stdout, exit_code >>
       ELSE Exit(ExitOnError, { "Traceback", "ModuleNotFoundError" })
    /\ UNCHANGED << fetch_vars, prog, launch, argv, effects, checks, overall >>

\* ap.parse_args(): --help prints the options and exits 0 before anything else is looked
\* at; a missing required --source is a usage error.
ParseArgs ==
    /\ cli_pc = "imported"
    /\ IF argv.help THEN Exit(0, { "usage", "-h, --help" } \cup Options(prog))
       ELSE IF SourceRequired(prog) /\ argv.source = None
       THEN Exit(ExitOnUsage, { "usage", "error" })
       ELSE /\ cli_pc' = "parsed"
            /\ UNCHANGED << stdout, exit_code >>
    /\ UNCHANGED << fetch_vars, prog, launch, argv, effects, checks, overall >>

\* What loading does: a request to the API, or a read of the CSV file.
LoadEffect == IF argv.source = "csv" THEN "load" ELSE "network"

\* checks.py / explore_311.py: the load block; a failed request, or a missing CSV path,
\* ends the process.
LoadData ==
    /\ cli_pc = "parsed"
    /\ prog \in ChecksProgs
    /\ \E ok \in BOOLEAN :
          IF ok THEN /\ effects' = Append(effects, LoadEffect)
                     /\ cli_pc' = "loaded"
                     /\ UNCHANGED << stdout, exit_code >>
          ELSE /\ effects' = IF argv.source = "csv" THEN effects
                              ELSE Append(effects, LoadEffect)
               /\ Exit(ExitOnError, {})
    /\ UNCHANGED << fetch_vars, prog, launch, argv, checks, overall >>

\* checks.py creates the report's directory with os.makedirs(os.path.dirname(args.out)),
\* which raises on the empty string; explore_311.py goes through ensure_dir.
ReportDirFails == prog = "checks" /\ Dirname(argv.out) = ""

\* checks.py / explore_311.py from the first check to the end of main: the checks, the
\* aggregation, the report and the exit status.
RunChecks ==
    /\ cli_pc = "loaded"
    /\ \E f \in Findings :
          /\ checks' = ChecksOf(f)
          /\ overall' = Overall(ChecksOf(f))
          /\ IF ReportDirFails
             THEN /\ effects' = effects
                  /\ Exit(ExitOnError, { "Traceback", "FileNotFoundError" })
             ELSE /\ effects' = Append(effects, "write")
                  /\ Exit(ExitCode(Overall(ChecksOf(f))),
                          { IF Overall(ChecksOf(f)) = "PASS" THEN "STEP2_READY_TO_PROCEED"
                            ELSE "STEP2_ATTENTION_NEEDED" })
    /\ UNCHANGED << fetch_vars, prog, launch, argv >>

\* peek.py and fetch.py after parse_args: they load (fetch.py creates its directories
\* first and writes its files after) and end with status 0, or with an error.
RunBody ==
    /\ cli_pc = "parsed"
    /\ prog \notin ChecksProgs
    /\ \E ok \in BOOLEAN :
          /\ effects' = effects \o (IF prog = "fetch" THEN << "write" >> ELSE << >>)
                                \o << LoadEffect >>
                                \o (IF prog = "fetch" /\ ok THEN << "write" >> ELSE << >>)
          /\ Exit(IF ok THEN 0 ELSE ExitOnError, {})
    /\ UNCHANGED << fetch_vars, prog, launch, argv, checks, overall >>

NextCli ==
    \/ ImportModule
    \/ ParseArgs
    \/ LoadData
    \/ RunChecks
    \/ RunBody

SpecCli == InitCli /\ [][NextCli]_vars

-----------------------------------------------------------------------------
(* Vocabulary of the properties *)

SchemaOk == Len(log) >= 1 /\ log[1].status = "ok"
Decided == pc \notin { "sample", "choose" }
ServerMode == working_where # NoWhere
FallbackReturned == pc = "returned" /\ working_where = NoWhere
CandidateNames == Range(DATE_FIELD_CANDIDATES)

Failed(i) == log[i].status # "ok"
Absorbed(i) == log[i].req.kind = "probe" /\ log[i].status = "http_error"
IsFilteredPage(i) == log[i].req.kind \in { "probe", "page" } /\ log[i].status = "ok"

\* Rows received through filtered requests before request i.
RECURSIVE ReceivedBefore(_)
ReceivedBefore(i) ==
    IF i <= 1 THEN 0
    ELSE ReceivedBefore(i - 1) + (IF IsFilteredPage(i - 1) THEN log[i - 1].n ELSE 0)

ReceivedTotal == ReceivedBefore(Len(log) + 1)

\* Rows received through blind requests.
RECURSIVE BlindBefore(_)
BlindBefore(i) ==
    IF i <= 1 THEN 0
    ELSE BlindBefore(i - 1)
         + (IF log[i - 1].req.kind = "blind" /\ log[i - 1].status = "ok" THEN log[i - 1].n ELSE 0)

\* The stored row a returned record came from, and its parsed date in a column.
Origin(r) == data[r["sr_number"]]
ParsedDate(r, c) == IF c \in DOMAIN Origin(r) THEN ToDatetime(Origin(r)[c]) ELSE NaT
Tried == Range(date_cols_to_try)

-----------------------------------------------------------------------------
(* C1 *)

\* C1: when an explicit override is given and is not in the probed schema, fetch_api
\* exits (SystemExit naming the override) right after the schema probe: the schema
\* request is the only request of the run.
C1_MissingOverrideIsFatalAtOnce ==
    (SchemaOk /\ Decided /\ created_field # None /\ created_field \notin cols)
        => /\ pc = "raised"
           /\ exc.type = "SystemExit"
           /\ exc.checked = << created_field >>
           /\ Len(log) = 1

C1_Witness ==
    /\ SchemaOk /\ created_field # None /\ created_field \notin cols
    /\ cols # {}
    /\ pc = "raised"

(* C2 *)

\* C2: the number of pages the fallback pager scans never exceeds max_pages.
C2_PagesScannedWithinCap == pages_scanned <= max_pages

(* C3 *)

\* C3: a fetch that returns through the server-filtered pager returns as many rows as
\* the probe page and the pager's pages held together, and the page received last is
\* shorter than chunk (or nothing was received at all).
C3_ServerRowCount ==
    (pc = "returned" /\ ServerMode)
        => /\ Len(df) = ReceivedTotal
           /\ log[Len(log)].req.kind = "page"
           /\ (log[Len(log)].n < chunk \/ ReceivedTotal = 0)

C3_Witness ==
    /\ pc = "returned" /\ ServerMode
    /\ Len(df) = 3
    /\ Cardinality({ i \in 1..Len(log) : log[i].req.kind = "page" }) >= 2
    /\ Len(first_rows) >= 1

(* C4 *)

\* C4: every record the fallback pager returns either has a tried candidate column whose
\* parsed date is at or after the cutoff, or has no tried candidate column that parses;
\* so no returned record has its latest parsed candidate date before the cutoff.
C4_FallbackKeepsOnlyNewerOrUnknown ==
    FallbackReturned =>
        \A k \in 1..Len(df) :
            \/ \E c \in Tried : ParsedDate(df[k], c) # NaT /\ ParsedDate(df[k], c) >= since_dt
            \/ \A c \in Tried : ParsedDate(df[k], c) = NaT

C4_Witness ==
    /\ FallbackReturned
    /\ \E k \in 1..Len(df) : \E c \in Tried : ParsedDate(df[k], c) >= since_dt
    /\ \E k \in 1..Len(df) : \A c \in Tried : ParsedDate(df[k], c) = NaT
    /\ Len(df) < BlindBefore(Len(log) + 1)

(* C5 *)

AllUnparseable(page) ==
    /\ page # << >>
    /\ \A i \in 1..Len(page) : \A c \in Tried :
          c \in DOMAIN page[i] /\ ToDatetime(page[i][c]) = NaT

\* C5: a fallback page whose rows all carry an unparseable value in every candidate
\* column is retained in full: it is the frame appended last to kept_frames.
C5_UnparseablePageRetained ==
    (pc \in { "fallback", "returned" } /\ ~ServerMode /\ pages_scanned >= 1
       /\ AllUnparseable(rows))
        => /\ kept_frames # << >>
           /\ Len(kept_frames[Len(kept_frames)]) = Len(rows)
           /\ \A i \in 1..Len(rows) :
                 kept_frames[Len(kept_frames)][i]["sr_number"] = rows[i]["sr_number"]

(* C6 *)

\* C6: once negotiation has succeeded, the column of the working filter and of the
\* working order is a member of DATE_FIELD_CANDIDATES or the override, and is one of the
\* columns the schema probe returned.
C6_WorkingColumnIsKnownCandidate ==
    ServerMode =>
        /\ working_where.col \in cols
        /\ \/ working_where.col \in CandidateNames
           \/ created_field # None /\ working_where.col = created_field
        /\ working_order.col = working_where.col
        /\ working_order.cast = working_where.cast

C6_Witness ==
    /\ ServerMode
    /\ created_field = None
    /\ working_where = [col |-> "open_date", cast |-> TRUE, lit |-> since_str]
    /\ Len(log) = 5

(* C7 *)

NotReissued(i) == \A j \in (i + 1)..Len(log) : log[j].req # log[i].req

\* C7 as stated: a failed request of any kind is the last request of the fetch, which
\* ends with an exception.
C7_AnyTransportErrorIsFatal ==
    \A i \in 1..Len(log) : Failed(i) => (pc = "raised" /\ i = Len(log))

\* C7 amended: a failed schema probe, server-filtered page or fallback page, and a
\* negotiation probe that timed out, is the last request of the fetch, which ends with an
\* exception; a negotiation probe answered with a non-success status does not end the
\* fetch; and no failed request is issued again.
C7_TransportErrorsFatalExceptProbeStatus ==
    \A i \in 1..Len(log) :
        Failed(i) =>
            /\ ~Absorbed(i) => /\ pc = "raised"
                               /\ i = Len(log)
                               /\ exc.type \in { "HTTPError", "Timeout" }
            /\ (Absorbed(i) /\ i = Len(log)) => pc \in { "negotiate", "fallback" }
            /\ NotReissued(i)

C7_Witness ==
    /\ pc = "raised"
    /\ \E i, j \in 1..Len(log) :
          /\ i < j
          /\ Absorbed(i)
          /\ Failed(j) /\ log[j].req.kind = "page" /\ log[j].status = "timeout"

(* C8 *)

\* C8: against a source that served every page from the asked offset, a fetch that
\* returns through the server-filtered pager returns exactly the rows the working filter
\* selects, in the source's order, and every page request asked for the offset equal to
\* the number of rows received before it.
C8_StableServerFetchIsExact ==
    (pc = "returned" /\ ServerMode /\ stable)
        => /\ df = View(working_where, working_order)
           /\ \A i \in 1..Len(log) :
                 log[i].req.kind = "page" => log[i].req.offset = ReceivedBefore(i)

C8_Witness ==
    /\ pc = "returned" /\ ServerMode /\ stable
    /\ Len(df) = 3
    /\ chunk = 2

(* C9 *)

SchemaEmpty == SchemaOk /\ log[1].n = 0

\* C9 as stated: after a schema probe that returned zero records the fetch does not
\* terminate fatally.
C9_EmptySchemaNotFatal ==
    SchemaEmpty => ~(pc = "raised" /\ exc.type = "SystemExit")

\* C9 amended: a schema probe that returned zero records yields the empty column set
\* without failing, and the fetch then exits with a configuration error (override not
\* found, or no suitable date column) before any other request.
C9_EmptySchemaEndsInConfigurationError ==
    (SchemaEmpty /\ pc # "sample") =>
        /\ cols = {}
        /\ Len(log) = 1
        /\ Decided => /\ pc = "raised"
                      /\ exc.type = "SystemExit"
                      /\ exc.columns = {}
                      /\ exc.checked = IF created_field # None THEN << created_field >>
                                       ELSE DATE_FIELD_CANDIDATES

C9_Witness ==
    /\ SchemaEmpty
    /\ created_field = None
    /\ pc = "raised"

(* C10 *)

\* C10: with no override and no member of DATE_FIELD_CANDIDATES in the probed schema,
\* fetch_api exits with an error that carries the whole candidate list and the schema's
\* columns, and the schema request is the only request of the run.
C10_NoCandidateIsFatalBeforeAnyProbe ==
    (SchemaOk /\ Decided /\ created_field = None /\ CandidateNames \cap cols = {})
        => /\ pc = "raised"
           /\ exc = Raised("SystemExit", "No suitable date column found",
                           DATE_FIELD_CANDIDATES, cols)
           /\ Len(log) = 1

C10_Witness ==
    /\ SchemaOk /\ created_field = None /\ CandidateNames \cap cols = {}
    /\ cols # {}
    /\ pc = "raised"

(* C12 *)

\* C12 as stated: the literal of every server-side filter denotes the very instant the
\* client-side comparisons use (since_dt).
C12_EveryFilterUsesTheCutoffInstant ==
    \A i \in 1..Len(log) :
        log[i].req.where # NoWhere => ParseLiteral(log[i].req.where.lit) = since_dt

\* C12 amended: the cutoff is computed once, before the first probe, and never changes;
\* the literal of every probe and page request is that instant cut to whole seconds, the
\* same in all of them; and the fallback pager keeps, of a page with a candidate column,
\* exactly the rows with a parsed date at or after the uncut instant.
C12_CutoffFixed ==
    /\ [][Decided => (since_dt' = since_dt /\ since_str' = since_str)]_vars
    /\ [](Decided /\ pc # "raised" =>
            /\ since_dt + DayTicks(days_back) \in ClockReads
            /\ since_str = Strftime(since_dt))
    /\ [](\A i \in 1..Len(log) :
            log[i].req.where # NoWhere => log[i].req.where.lit = Strftime(since_dt))
    /\ []((pc \in { "fallback", "returned" } /\ ~ServerMode /\ pages_scanned >= 1
             /\ PresentCols(rows) # {}) =>
            \A i \in 1..Len(rows) :
                (\E c \in Tried : ParsedDate(rows[i], c) # NaT
                                   /\ ParsedDate(rows[i], c) >= since_dt)
                <=> (kept_frames # << >>
                     /\ \E k \in 1..Len(kept_frames[Len(kept_frames)]) :
                           kept_frames[Len(kept_frames)][k]["sr_number"]
                             = rows[i]["sr_number"]))

C12_Witness ==
    /\ since_dt % TicksPerSecond # 0
    /\ \E i, j \in 1..Len(log) :
          /\ log[i].req.kind = "probe" /\ log[j].req.kind = "page"
          /\ log[j].req.offset > 0

(* C16 *)

IsProbe(i) == log[i].req.kind = "probe"
ProbeCol(i) == log[i].req.where.col
IsCastProbe(i) == IsProbe(i) /\ log[i].req.where.cast
IsRawProbe(i) == IsProbe(i) /\ ~log[i].req.where.cast

\* The place of a tried candidate in the priority order.
CandIndex(c) == CHOOSE k \in 1..Len(date_cols_to_try) : date_cols_to_try[k] = c

\* The response that failed request i is one the negotiator takes for a type mismatch.
MismatchResponse(i) ==
    /\ log[i].status = "http_error"
    /\ \E k \in 1..Len(log[i].body) :
          log[i].body[k] \in { "type-mismatch", "Type mismatch", "op$>=" }

\* C16: the probes go through the candidates in priority order without skipping any; a
\* candidate's first probe is the raw comparison, its cast probe directly follows its raw
\* probe and only when that one failed with a type-mismatch response; a candidate gets
\* at most one raw and one cast probe; and a successful probe is the last probe.
C16_NegotiationOrder ==
    /\ \A i \in 1..Len(log) : IsProbe(i) =>
          /\ ProbeCol(i) \in Tried
          /\ i = 2 => (IsRawProbe(i) /\ CandIndex(ProbeCol(i)) = 1)
          /\ (i > 2 /\ IsRawProbe(i)) =>
                /\ IsProbe(i - 1) /\ Failed(i - 1)
                /\ CandIndex(ProbeCol(i)) = CandIndex(ProbeCol(i - 1)) + 1
          /\ IsCastProbe(i) =>
                /\ i > 2
                /\ IsRawProbe(i - 1)
                /\ ProbeCol(i - 1) = ProbeCol(i)
                /\ MismatchResponse(i - 1)
          /\ log[i].status = "ok" => \A j \in (i + 1)..Len(log) : ~IsProbe(j)
    /\ \A c \in Tried :
          /\ Cardinality({ i \in 1..Len(log) : IsRawProbe(i) /\ ProbeCol(i) = c }) <= 1
          /\ Cardinality({ i \in 1..Len(log) : IsCastProbe(i) /\ ProbeCol(i) = c }) <= 1

\* Two candidates were probed: the first raw then cast, the second raw with success,
\* after which pages were fetched.
C16_Witness ==
    /\ Len(log) >= 5
    /\ IsRawProbe(2) /\ MismatchResponse(2)
    /\ IsCastProbe(3) /\ Failed(3)
    /\ IsRawProbe(4) /\ log[4].status = "ok" /\ ProbeCol(4) # ProbeCol(2)
    /\ log[5].req.kind = "page"

(* C17 *)

\* A probe that failed and does not lead to the cast probe of the same candidate.
OtherProbeFailure(i) == IsProbe(i) /\ Failed(i) /\ ~(IsRawProbe(i) /\ MismatchResponse(i))

IsLastCandidate(c) == CandIndex(c) = Len(date_cols_to_try)

\* C17 as stated: no such probe failure, whatever its reason, ends the fetch.
C17_NoProbeFailureAborts ==
    \A i \in 1..Len(log) : OtherProbeFailure(i) => ~(pc = "raised" /\ i = Len(log))

\* C17 amended: a probe answered with a non-success HTTP status that is not a raw probe's
\* type mismatch (a failed cast probe included) does not end the fetch: the next request
\* is the raw probe of the next candidate, or the first request of the fallback pager when
\* the candidate was the last one.
C17_ProbeStatusFailureMovesOn ==
    \A i \in 1..Len(log) :
        (OtherProbeFailure(i) /\ log[i].status = "http_error") =>
            /\ i = Len(log) =>
                  /\ exc = NoExc
                  /\ pc = IF IsLastCandidate(ProbeCol(i)) THEN "fallback" ELSE "negotiate"
                  /\ ~ServerMode
            /\ i < Len(log) =>
                  IF IsLastCandidate(ProbeCol(i))
                  THEN log[i + 1].req.kind = "blind" /\ log[i + 1].req.offset = 0
                  ELSE /\ IsRawProbe(i + 1)
                       /\ CandIndex(ProbeCol(i + 1)) = CandIndex(ProbeCol(i)) + 1

\* A raw probe failed without a type mismatch, the next candidate's cast probe failed as
\* the last one, and the fallback pager returned rows.
C17_Witness ==
    /\ Len(log) >= 5
    /\ IsRawProbe(2) /\ OtherProbeFailure(2) /\ log[2].status = "http_error"
    /\ IsRawProbe(3)
    /\ IsCastProbe(4) /\ log[4].status = "http_error"
    /\ log[5].req.kind = "blind"
    /\ pc = "returned" /\ df # << >>

(* C18 *)

HasNewerDate(r) == \E c \in Tried : ParsedDate(r, c) # NaT /\ ParsedDate(r, c) >= since_dt

\* C18: when the fallback pager stopped on the early-stop heuristic, the page processed
\* last had no row with a parsed candidate date at or after the cutoff, and the
\* accumulated result holds at least one row with such a date.
C18_HeuristicStopAfterNewerRows ==
    (pc = "returned" /\ stop_reason = "heuristic") =>
        /\ \A i \in 1..Len(rows) : ~HasNewerDate(rows[i])
        /\ \E k \in 1..Len(df) : HasNewerDate(df[k])

(* C20 *)

IsPageReq(i) == log[i].req.kind = "page"
IsBlindReq(i) == log[i].req.kind = "blind"
SucceededProbes == { i \in 1..Len(log) : IsProbe(i) /\ log[i].status = "ok" }

\* C20: after a successful probe every later request is a page request carrying that
\* probe's filter and order expression, and no blind request is ever issued; page requests
\* are issued only after a successful probe; blind requests are issued only when every
\* candidate was probed and every probe failed, and they carry no filter; so one fetch
\* never issues both page and blind requests.
C20_ExactlyOnePager ==
    /\ \A s \in SucceededProbes :
          /\ working_where = log[s].req.where
          /\ working_order = log[s].req.order
          /\ \A j \in (s + 1)..Len(log) :
                /\ IsPageReq(j)
                /\ log[j].req.where = log[s].req.where
                /\ log[j].req.order = log[s].req.order
          /\ \A j \in 1..Len(log) : ~IsBlindReq(j)
          /\ pc # "fallback"
    /\ \A j \in 1..Len(log) :
          /\ IsPageReq(j) => \E s \in SucceededProbes : s < j
          /\ IsBlindReq(j) =>
                /\ log[j].req.where = NoWhere
                /\ SucceededProbes = {}
                /\ \A c \in Tried : \E i \in 1..(j - 1) :
                      IsRawProbe(i) /\ ProbeCol(i) = c /\ Failed(i)
                /\ \A i \in 1..Len(log) : IsProbe(i) => (Failed(i) /\ i < j)
    /\ ~(\E i, j \in 1..Len(log) : IsPageReq(i) /\ IsBlindReq(j))
    /\ (pc = "server" => SucceededProbes # {}) /\ (pc = "fallback" => SucceededProbes = {})

\* The first candidate failed, the second one's cast probe succeeded, and two pages
\* followed.
C20_Witness ==
    /\ pc = "returned"
    /\ \E s \in SucceededProbes : s = 4 /\ IsCastProbe(s) /\ log[s].n >= 1
    /\ Cardinality({ j \in 1..Len(log) : IsPageReq(j) }) >= 2

(* C19 *)

\* C19: against a source that serves every page of the frozen filtered result from the
\* asked offset, the server-filtered pager always terminates: whenever it is running it
\* can issue its next request, it eventually stops, it returns only after a page shorter
\* than chunk (an empty one included), and it stops without returning only when a page
\* request failed.
C19_ServerPagerTerminates ==
    /\ (pc = "server") ~> (pc \in { "returned", "raised" })
    /\ [](pc = "server" => Len(log) < RequestBudget)
    /\ []((pc = "returned" /\ ServerMode) =>
            (IsPageReq(Len(log)) /\ log[Len(log)].status = "ok" /\ log[Len(log)].n < chunk))
    /\ []((pc = "raised" /\ ServerMode) => (IsPageReq(Len(log)) /\ Failed(Len(log))))

\* With chunk = 1 the pager went through three full pages and stopped on the empty one.
C19_Witness ==
    /\ pc = "returned" /\ ServerMode
    /\ chunk = 1
    /\ Cardinality({ j \in 1..Len(log) : IsPageReq(j) /\ log[j].n = chunk }) >= MaxRows - 1
    /\ log[Len(log)].n = 0
    /\ Len(df) = MaxRows

(* C13 *)

\* The exceptions with which fetch_api or the csv branch ends a run.
FatalTypes == { "SystemExit", "HTTPError", "Timeout" }

\* C13: a run ended by a configuration error, a failed negotiation set-up or a transport
\* error has returned no rows and has written no file (only the two directories exist);
\* and the marker is on disk only as the last of the three files, after the Parquet file
\* and the summary, in a run that ended normally.
C13_NoPartialResultMarkerLast ==
    /\ (pc = "raised" /\ exc.type \in FatalTypes) =>
          /\ df = << >>
          /\ written = << DataDir, NotesDir >>
    /\ (\E k \in 1..Len(written) : written[k] = MarkerFile) =>
          /\ written = << DataDir, NotesDir, OutFile, SummaryFile, MarkerFile >>
          /\ pc = "done"
          /\ exc = NoExc
    /\ pc = "done" => written[Len(written)] = MarkerFile

\* A page request timed out after the probe page had been accumulated.
C13_Witness ==
    /\ pc = "raised" /\ exc.type = "Timeout"
    /\ source = "api"
    /\ frames # << >>
    /\ IsPageReq(Len(log))
    /\ written = << DataDir, NotesDir >>

(* C11 *)

\* The request as it goes over the wire: its query parameters.
Wire(req) == [where |-> req.where, order |-> req.order, limit |-> req.limit,
              offset |-> req.offset]

\* Equal requests of the two invocations got equal answers.
SameAnswers(l1, l2) ==
    \A i \in 1..Len(l1) : \A j \in 1..Len(l2) :
        Wire(l1[i].req) = Wire(l2[j].req) =>
            /\ l1[i].status = l2[j].status
            /\ l1[i].body = l2[j].body
            /\ l1[i].n = l2[j].n

BothReturned == run = 2 /\ pc = "returned"

\* C11 as stated: two invocations with the same arguments against the same frozen data,
\* answered alike, return the same rows in the same order.
C11_TwoInvocationsSameResult ==
    (BothReturned /\ SameAnswers(prev.log, log)) => df = prev.df

\* C11 amended: they return the same rows in the same order when, in addition, both
\* computed the same cutoff instant.
C11_SameCutoffSameResult ==
    (BothReturned /\ SameAnswers(prev.log, log) /\ since_dt = prev.since_dt)
        => df = prev.df

\* Both invocations went through the fallback pager with the same cutoff and returned
\* rows after more than one page.
C11_Witness ==
    /\ BothReturned /\ SameAnswers(prev.log, log) /\ since_dt = prev.since_dt
    /\ ~ServerMode
    /\ pages_scanned >= 2
    /\ df # << >>
    /\ since_dt % TicksPerSecond # 0

(* C14 *)

\* C14: a run of checks.py or explore_311.py that computed its checks exits with status 0
\* exactly when no check has status FAIL or WARN, and with status 1 otherwise.
C14_ExitStatusReflectsChecks ==
    (cli_pc = "exited" /\ checks # << >>) =>
        /\ exit_code \in { 0, 1 }
        /\ exit_code = 0 <=> (\A i \in 1..Len(checks) : checks[i] \notin { "FAIL", "WARN" })

(* C15 *)

HelpRun == launch = "module" /\ prog \in { "peek", "explore_311", "fetch" } /\ argv.help

\* The option the help text of each program is looked up for.
HelpOption(p) == IF p = "fetch" THEN "--days" ELSE "--source"

\* C15: python -m src.peek, src.explore_311 or src.fetch with --help ends with exit status
\* 0 after printing its options, and has loaded no data, sent no request and written no
\* file.
C15_HelpExitsZeroBeforeAnyEffect ==
    (HelpRun /\ cli_pc = "exited") =>
        /\ exit_code = 0
        /\ HelpOption(prog) \in stdout
        /\ effects = << >>

(* C22 *)

\* The first candidate negotiation tries: the override, or the first member of
\* DATE_FIELD_CANDIDATES that the probed schema holds.
FirstCandidate ==
    IF created_field # None THEN created_field
    ELSE DATE_FIELD_CANDIDATES[CHOOSE k \in 1..Len(DATE_FIELD_CANDIDATES) :
             /\ DATE_FIELD_CANDIDATES[k] \in cols
             /\ \A j \in 1..(k - 1) : DATE_FIELD_CANDIDATES[j] \notin cols]

\* C22: whenever the fallback pager runs, order_col is the first candidate negotiation
\* tried (never None), that candidate was the column of the first probe, and every blind
\* request carries it, uncast, as its order expression.
C22_FallbackOrderedByFirstCandidate ==
    /\ (pc = "fallback" \/ \E i \in 1..Len(log) : IsBlindReq(i)) =>
          /\ order_col # None
          /\ order_col = FirstCandidate
          /\ order_col = date_cols_to_try[1]
          /\ IsRawProbe(2) /\ ProbeCol(2) = order_col
    /\ \A i \in 1..Len(log) : IsBlindReq(i) =>
          /\ log[i].req.order # NoOrder
          /\ log[i].req.order = [col |-> FirstCandidate, cast |-> FALSE]

\* Two candidates were tried without an override, and the fallback pager fetched two
\* pages ordered by the first of them.
C22_Witness ==
    /\ created_field = None
    /\ Len(date_cols_to_try) = 2
    /\ Cardinality({ i \in 1..Len(log) : IsBlindReq(i) /\ log[i].n >= 1 }) >= 2
    /\ pc = "returned"

(* C21 *)

\* The identifiers of the rows of a frame, in its order.
Ids(frame) == [ i \in 1..Len(frame) |-> frame[i]["sr_number"] ]

\* a is b with some elements left out, the others in b's order.
RECURSIVE IsSubseq(_, _)
IsSubseq(a, b) ==
    IF a = << >> THEN TRUE
    ELSE IF b = << >> THEN FALSE
    ELSE IF Head(a) = Head(b) THEN IsSubseq(Tail(a), Tail(b))
    ELSE IsSubseq(a, Tail(b))

\* The pages a stable source served to the requests of these kinds, concatenated in
\* arrival order.
RECURSIVE ArrivedBefore(_, _)
ArrivedBefore(i, kinds) ==
    IF i <= 1 THEN << >>
    ELSE ArrivedBefore(i - 1, kinds)
         \o (IF log[i - 1].req.kind \in kinds /\ log[i - 1].status = "ok"
             THEN AskedPage(log[i - 1].req) ELSE << >>)

Arrived(kinds) == ArrivedBefore(Len(log) + 1, kinds)

\* C21: the server-filtered pager appends every page it receives, whole and in its order,
\* after the pages before it, and returns their concatenation; the fallback pager appends
\* of every page a subsequence in the page's order, after what it kept before, and
\* returns the concatenation; so against a stable source the result is the concatenation
\* of the arrived pages (server mode) or an order-preserving subsequence of it (fallback).
C21_ResultPreservesPaginationOrder ==
    /\ [][(pc = "negotiate" /\ pc' = "server") =>
            frames' = (IF first_rows' = << >> THEN << >> ELSE << first_rows' >>)]_vars
    /\ [][(pc = "server" /\ log' # log) =>
            (frames' = frames
             \/ (rows' # << >> /\ frames' = Append(frames, rows')))]_vars
    /\ [][(pc = "fallback" /\ log' # log) =>
            (kept_frames' = kept_frames
             \/ \E k \in { kept_frames'[Len(kept_frames')] } :
                   /\ kept_frames' = Append(kept_frames, k)
                   /\ IsSubseq(Ids(k), Ids(rows')))]_vars
    /\ []((pc = "returned" /\ ServerMode) => df = Concat(frames))
    /\ [](FallbackReturned => df = Concat(kept_frames))
    /\ []((pc = "returned" /\ ServerMode /\ stable) => df = Arrived({ "probe", "page" }))
    /\ []((FallbackReturned /\ stable) => IsSubseq(Ids(df), Ids(Arrived({ "blind" }))))

\* The fallback pager kept two rows of one page and dropped a row.
C21_Witness ==
    /\ FallbackReturned /\ stable
    /\ \E j \in 1..Len(kept_frames) : Len(kept_frames[j]) >= 2
    /\ Len(df) < Len(Arrived({ "blind" }))
    /\ pages_scanned >= 2

====
